---- MODULE Spec2Model ----
(***************************************************************************)
(* Model of models/company.js: the Company data-access class of jobly.     *)
(* The state is the companies table, the position of every caller in the   *)
(* one operation that issues two queries (create), and the most recently   *)
(* settled call (its arguments and its outcome).                           *)
(***************************************************************************)
EXTENDS Integers, Sequences, FiniteSets, TLC

\* ------------------------------------------------------------------ bounds
NumCallers == 2          \* concurrent callers of the module
MaxEmployees == 2        \* employee counts 0..MaxEmployees (plus one above the default cap)
MaxFields == 2           \* keys in one update field map

\* --------------------------------------------------------------- constants
DEFAULT_MIN == 0
DEFAULT_MAX == 1000000

\* SQL NULL / JS null in an integer column, and in a text column
NullInt == -1
NullText == "null"

Callers == 1..NumCallers
Handles == {"h1", "h2"}

\* Names are strings, written as sequences of character codes:
\* 65 = "A", 66 = "B", 97 = "a", 98 = "b".
Names == {<<65, 98>>, <<97>>}
SearchNames == {<<97>>, <<66>>}
Descriptions == {"d1", "d2"}
LogoUrls == {NullText, "u1"}
EmployeeNums == {NullInt} \cup (0..MaxEmployees) \cup {DEFAULT_MAX + 1}
CrudEmployeeNums == {NullInt, MaxEmployees}

VARIABLES companies, pc, frame, last

vars == <<companies, pc, frame, last>>

\* ------------------------------------------------------------ JS helpers
\* The key set of a JS object.
Keys(obj) == DOMAIN obj

\* obj with key k set to v.
With(obj, k, v) == [x \in (DOMAIN obj) \cup {k} |-> IF x = k THEN v ELSE obj[x]]

\* rows[0] of a query result: <<>> stands for undefined.
FirstRow(rows) == IF rows = {} THEN <<>> ELSE <<CHOOSE r \in rows : TRUE>>

\* ----------------------------------------------------------- the SQL used
\* RETURNING / SELECT list: handle, name, description,
\* num_employees AS "numEmployees", logo_url AS "logoUrl".
ToCompany(row) ==
  [handle |-> row.handle, name |-> row.name, description |-> row.description,
   numEmployees |-> row.num_employees, logoUrl |-> row.logo_url]

HandlesOf(rows) == {r.handle : r \in rows}

\* SELECT handle FROM companies WHERE handle = $1
DuplicateCheckNone(rows, handle) == {}
DuplicateCheck(rows, handle) == {[handle |-> r.handle] : r \in {x \in rows : x.handle = handle}}

\* INSERT INTO companies (handle, name, description, num_employees, logo_url)
\* VALUES ($1, $2, $3, $4, $5)
InsertValuesNoLogo(params) ==
  [handle |-> params[1], name |-> params[2], description |-> params[3],
   num_employees |-> params[4], logo_url |-> NullText]
InsertValues(params) ==
  [handle |-> params[1], name |-> params[2], description |-> params[3],
   num_employees |-> params[4], logo_url |-> params[5]]

\* handle is the primary key of companies.
PrimaryKeyViolation(rows, row) == row.handle \in HandlesOf(rows)

\* An error thrown by db.query propagates out of the async function unchanged.
QueryErrorAsDuplicate == "BadRequestError"
QueryError == "UniqueViolation"

\* SELECT ... FROM companies WHERE handle = $1
SelectByHandle(rows, handle) == {ToCompany(r) : r \in {x \in rows : x.handle = handle}}

\* DELETE FROM companies WHERE handle = $1 (the rows deleted)
Deleted(rows, handle) == {r \in rows : r.handle = handle}

\* if (!company)
MissingNever(company) == FALSE
Missing(company) == company = <<>>

\* ------------------------------------------------------ the settled call
NoArgs == <<>>

Settled(c, op, handle, data, status, value, queries) ==
  [caller |-> c, op |-> op, handle |-> handle, data |-> data,
   status |-> status, value |-> value, queries |-> queries]

Init ==
  /\ companies = {}
  /\ pc = [c \in Callers |-> "idle"]
  /\ frame = [c \in Callers |-> <<>>]
  /\ last = Settled(0, "none", "", NoArgs, "ok", <<>>, 0)

\* ------------------------------------------------------------------ create
\* create up to its first await: the duplicate check.
CreateCheck(c, data) ==
  /\ pc[c] = "idle"
  /\ LET duplicateCheck == DuplicateCheck(companies, data.handle)
     IN IF FirstRow(duplicateCheck) # <<>>
        THEN /\ last' = Settled(c, "create", data.handle, NoArgs, "BadRequestError", <<>>, 1)
             /\ UNCHANGED <<companies, pc, frame>>
        ELSE /\ pc' = [pc EXCEPT ![c] = "insert"]
             /\ frame' = [frame EXCEPT ![c] = <<data>>]
             /\ UNCHANGED <<companies, last>>

\* create from its first await on: the insert and the return.
CreateInsert(c) ==
  /\ pc[c] = "insert"
  /\ LET data == frame[c][1]
         row == InsertValues(<<data.handle, data.name, data.description,
                               data.numEmployees, data.logoUrl>>)
     IN IF PrimaryKeyViolation(companies, row)
        THEN /\ last' = Settled(c, "create", data.handle, NoArgs, QueryError, <<>>, 2)
             /\ UNCHANGED companies
        ELSE /\ companies' = companies \cup {row}
             /\ last' = Settled(c, "create", data.handle, NoArgs, "ok", <<ToCompany(row)>>, 2)
  /\ pc' = [pc EXCEPT ![c] = "idle"]
  /\ frame' = [frame EXCEPT ![c] = <<>>]

\* --------------------------------------------------------------------- get
Get(c, handle) ==
  /\ pc[c] = "idle"
  /\ LET company == FirstRow(SelectByHandle(companies, handle))
     IN last' = IF Missing(company)
                THEN Settled(c, "get", handle, NoArgs, "NotFoundError", <<>>, 1)
                ELSE Settled(c, "get", handle, NoArgs, "ok", company, 1)
  /\ UNCHANGED <<companies, pc, frame>>

\* ------------------------------------------------------------------ remove
Remove(c, handle) ==
  /\ pc[c] = "idle"
  /\ LET deleted == Deleted(companies, handle)
         company == FirstRow({[handle |-> r.handle] : r \in deleted})
     IN /\ companies' = companies \ deleted
        /\ last' = IF Missing(company)
                   THEN Settled(c, "remove", handle, NoArgs, "NotFoundError", <<>>, 1)
                   ELSE Settled(c, "remove", handle, NoArgs, "ok", <<>>, 1)
  /\ UNCHANGED <<pc, frame>>

\* ------------------------------------------------------------------ update
\* The order in which the keys of a field map are enumerated (Object.keys).
FieldOrder == <<"handle", "name", "description", "numEmployees", "logoUrl">>

KeysOf(data) == SelectSeq(FieldOrder, LAMBDA k : k \in Keys(data))

\* The column aliases update passes to the partial-update compiler.
JsToSql == [numEmployees |-> "num_employees", logoUrl |-> "logo_url"]

\* The partial-update compiler (helpers/sql): one "column = $n" per provided
\* field, numbered from 1, the alias if present else the field name verbatim;
\* it fails with a BadRequestError on an empty field map.
CompileFails(data) == Keys(data) = {}

SqlForPartialUpdate(data, jsToSql) ==
  LET keys == KeysOf(data)
  IN [setCols |-> [i \in 1..Len(keys) |->
                     [col |-> IF keys[i] \in DOMAIN jsToSql THEN jsToSql[keys[i]] ELSE keys[i],
                      idx |-> i]],
      values |-> [i \in 1..Len(keys) |-> data[keys[i]]]]

\* const handleVarIdx = "$" + (values.length + 1)
HandleVarIdx(values) == Len(values) + 1

\* UPDATE companies SET ${setCols} WHERE handle = ${handleVarIdx}: the rows it matches
UpdateMatchedAll(rows, params, handleVarIdx) == rows
UpdateMatched(rows, params, handleVarIdx) == {r \in rows : r.handle = params[handleVarIdx]}

\* ... and a matched row after the assignments of setCols
ApplySet(row, setCols, params) ==
  [col \in DOMAIN row |->
     IF \E i \in DOMAIN setCols : setCols[i].col = col
     THEN params[setCols[CHOOSE i \in DOMAIN setCols : setCols[i].col = col].idx]
     ELSE row[col]]

\* The primary key rejects an UPDATE that would leave two rows with one handle.
UpdateKeyViolation(rest, matched, setCols, params) ==
  \/ \E r \in matched : ApplySet(r, setCols, params).handle \in HandlesOf(rest)
  \/ \E r1, r2 \in matched :
       r1 # r2 /\ ApplySet(r1, setCols, params).handle = ApplySet(r2, setCols, params).handle

\* (each \E over a one-element set names a local of the function.)
Update(c, handle, data) ==
  /\ pc[c] = "idle"
  /\ IF CompileFails(data)
     THEN /\ last' = Settled(c, "update", handle, data, "BadRequestError", <<>>, 0)
          /\ UNCHANGED companies
     ELSE \E compiled \in {SqlForPartialUpdate(data, JsToSql)} :
          \E params \in {compiled.values \o <<handle>>} :
          \E matched \in {UpdateMatched(companies, params, HandleVarIdx(compiled.values))} :
          \E changed \in {{ApplySet(r, compiled.setCols, params) : r \in matched}} :
          \E company \in {FirstRow({ToCompany(r) : r \in changed})} :
            IF UpdateKeyViolation(companies \ matched, matched, compiled.setCols, params)
            THEN /\ last' = Settled(c, "update", handle, data, QueryError, <<>>, 1)
                 /\ UNCHANGED companies
            ELSE /\ companies' = (companies \ matched) \cup changed
                 /\ last' = IF Missing(company)
                            THEN Settled(c, "update", handle, data, "NotFoundError", <<>>, 1)
                            ELSE Settled(c, "update", handle, data, "ok", company, 1)
  /\ UNCHANGED <<pc, frame>>

\* ----------------------------------------------------------------- findAll
\* Number(x): <<>> stands for NaN, which Number gives for undefined.
ToNumber(query, k) == IF k \in Keys(query) THEN <<query[k]>> ELSE <<>>

\* a > b on numbers; every comparison with NaN is false.
GreaterThan(a, b) == a # <<>> /\ b # <<>> /\ a[1] > b[1]

\* if (Number(minEmployees) > Number(maxEmployees))
InvalidRangeUndefinedAsZero(query) ==
  (IF "minEmployees" \in Keys(query) THEN query["minEmployees"] ELSE 0)
    > (IF "maxEmployees" \in Keys(query) THEN query["maxEmployees"] ELSE 0)
InvalidRange(query) ==
  GreaterThan(ToNumber(query, "minEmployees"), ToNumber(query, "maxEmployees"))

\* JS truthiness of a number-valued and of a string-valued property:
\* undefined, 0 and "" are falsy.
TruthyNum(query, k) == k \in Keys(query) /\ query[k] # 0
TruthyStr(query, k) == k \in Keys(query) /\ query[k] # <<>>

\* x || dflt
OrElse(query, k, dflt) == IF TruthyNum(query, k) THEN query[k] ELSE dflt

Lower(ch) == IF ch \in 65..90 THEN ch + 32 ELSE ch
LowerStr(str) == [i \in 1..Len(str) |-> Lower(str[i])]
Contains(str, sub) ==
  \E i \in 0..(Len(str) - Len(sub)) : SubSeq(str, i + 1, i + Len(sub)) = sub

\* name ILIKE '%' || sub || '%'
ILike(str, sub) == Contains(LowerStr(str), LowerStr(sub))

\* num_employees >= lo AND num_employees <= hi (a NULL compares as unknown)
EmployeesBetween(row, lo, hi) ==
  row.num_employees # NullInt /\ row.num_employees >= lo /\ row.num_employees <= hi

\* WHERE name ILIKE $1 AND num_employees >= $2 AND num_employees <= $3
FindAllByNameAndEmployeeNum(rows, name, minEmployees, maxEmployees) ==
  {r \in rows : ILike(r.name, name) /\ EmployeesBetween(r, minEmployees, maxEmployees)}

\* WHERE name ILIKE $1
FindAllByName(rows, name) == {r \in rows : ILike(r.name, name)}

\* WHERE num_employees >= $1 AND num_employees <= $2
FindAllByEmployeeNum(rows, minEmployees, maxEmployees) ==
  {r \in rows : EmployeesBetween(r, minEmployees, maxEmployees)}

\* The four-way dispatch of findAll: the rows its query selects.
Dispatch(rows, query) ==
  LET name == TruthyStr(query, "name")
      minEmployees == TruthyNum(query, "minEmployees")
      maxEmployees == TruthyNum(query, "maxEmployees")
  IN IF name /\ (minEmployees \/ maxEmployees)
     THEN FindAllByNameAndEmployeeNum(rows, query["name"],
                                      OrElse(query, "minEmployees", DEFAULT_MIN),
                                      OrElse(query, "maxEmployees", DEFAULT_MAX))
     ELSE IF ~name /\ (minEmployees \/ maxEmployees)
     THEN FindAllByEmployeeNum(rows, OrElse(query, "minEmployees", DEFAULT_MIN),
                                     OrElse(query, "maxEmployees", DEFAULT_MAX))
     ELSE IF name /\ ~(minEmployees /\ maxEmployees)
     THEN FindAllByName(rows, query["name"])
     ELSE rows

\* The order of two strings in the store's collation (by character code).
RECURSIVE NameBefore(_, _)
NameBefore(a, b) ==
  IF a = <<>> THEN b # <<>>
  ELSE IF b = <<>> THEN FALSE
  ELSE IF Head(a) # Head(b) THEN Head(a) < Head(b)
  ELSE NameBefore(Tail(a), Tail(b))

\* ORDER BY name: every order of the rows that ascends by name
\* (rows of equal name come in either order).
RECURSIVE OrderByName(_)
OrderByName(rows) ==
  IF rows = {} THEN {<<>>}
  ELSE UNION {{<<r>> \o rest : rest \in OrderByName(rows \ {r})} :
                r \in {x \in rows : \A y \in rows : ~NameBefore(y.name, x.name)}}

FindAll(c, query) ==
  /\ pc[c] = "idle"
  /\ IF InvalidRange(query)
     THEN last' = Settled(c, "findAll", "", query, "BadRequestError", <<>>, 0)
     ELSE \E ordered \in OrderByName(Dispatch(companies, query)) :
            last' = Settled(c, "findAll", "", query, "ok",
                            [i \in 1..Len(ordered) |-> ToCompany(ordered[i])], 1)
  /\ UNCHANGED <<companies, pc, frame>>

\* ------------------------------------------------------------- the inputs
CreateInputs ==
  [handle : Handles, name : Names, description : Descriptions,
   numEmployees : CrudEmployeeNums, logoUrl : LogoUrls]

UpdateValues(k) ==
  CASE k = "handle" -> Handles
    [] k = "name" -> Names
    [] k = "description" -> Descriptions
    [] k = "numEmployees" -> CrudEmployeeNums
    [] k = "logoUrl" -> LogoUrls

RECURSIVE UpdateMaps(_)
UpdateMaps(K) ==
  IF K = {} THEN {NoArgs}
  ELSE LET k == CHOOSE x \in K : TRUE
       IN {With(m, k, v) : m \in UpdateMaps(K \ {k}), v \in UpdateValues(k)}

UpdateInputs ==
  UNION {UpdateMaps(K) :
           K \in {S \in SUBSET {"handle", "name", "description", "numEmployees", "logoUrl"} :
                    Cardinality(S) <= MaxFields}}

QueryValues(k) == IF k = "name" THEN SearchNames ELSE 0..MaxEmployees

RECURSIVE QueryMaps(_)
QueryMaps(K) ==
  IF K = {} THEN {NoArgs}
  ELSE LET k == CHOOSE x \in K : TRUE
       IN {With(m, k, v) : m \in QueryMaps(K \ {k}), v \in QueryValues(k)}

Queries == UNION {QueryMaps(K) : K \in SUBSET {"name", "minEmployees", "maxEmployees"}}

\* The queries of Spec: at most one filter key (SpecFind takes them all).
SpecQueries == {q \in Queries : Cardinality(Keys(q)) <= 1}

\* The client whose calls Spec follows, one after another.
Client == CHOOSE c \in Callers : TRUE

\* ------------------------------------------------------- specifications
\* Spec: one client calls the five operations in any order, each call
\* running to its end before the next (create in its two steps).
Next ==
  \/ \E data \in CreateInputs : CreateCheck(Client, data)
  \/ CreateInsert(Client)
  \/ \E h \in Handles : Get(Client, h)
  \/ \E h \in Handles, data \in UpdateInputs : Update(Client, h, data)
  \/ \E h \in Handles : Remove(Client, h)
  \/ \E query \in SpecQueries : FindAll(Client, query)

Spec == Init /\ [][Next]_vars

\* SpecFind: findAll on every table of at most one row per handle.
FindRows ==
  [handle : Handles, name : Names, description : {"d1"},
   num_employees : EmployeeNums, logo_url : {NullText}]

InitFind ==
  /\ companies \in {rows \in SUBSET FindRows :
                      \A r1, r2 \in rows : r1.handle = r2.handle => r1 = r2}
  /\ pc = [c \in Callers |-> "idle"]
  /\ frame = [c \in Callers |-> <<>>]
  /\ last = Settled(0, "none", "", NoArgs, "ok", <<>>, 0)

NextFind == \E query \in Queries : FindAll(Client, query)

SpecFind == InitFind /\ [][NextFind]_vars

\* SpecRace: the callers create concurrently, the two queries of a create
\* being separate steps.
RaceInputs ==
  [handle : Handles, name : Names, description : {"d1"},
   numEmployees : {NullInt}, logoUrl : {NullText}]

NextRace ==
  \/ \E c \in Callers, data \in RaceInputs : CreateCheck(c, data)
  \/ \E c \in Callers : CreateInsert(c)

SpecRace == Init /\ [][NextRace]_vars

\* ================================================================ claims
\* A call of op settles in this step (returns or throws).
Settles(op) == last' # last /\ last'.op = op

\* The row of handle h in a table that holds one.
RowOf(rows, h) == CHOOSE r \in rows : r.handle = h

\* C1: a create whose handle already has a row fails with the duplicate
\* error (a BadRequestError) after its check query alone, never goes on to
\* the insert, and leaves the table as it was.
C1_DuplicateCreateFails ==
  [][\A c \in Callers :
       /\ (pc[c] = "idle" /\ pc'[c] = "insert")
            => frame'[c][1].handle \notin HandlesOf(companies)
       /\ (pc[c] = "idle" /\ Settles("create") /\ last'.caller = c
             /\ last'.handle \in HandlesOf(companies))
            => /\ last'.status = "BadRequestError"
               /\ last'.value = <<>>
               /\ last'.queries = 1
               /\ companies' = companies]_vars

C1_Witness ==
  /\ last.op = "create"
  /\ last.status = "BadRequestError"
  /\ last.handle \in HandlesOf(companies)

MutableFields == {"name", "description", "numEmployees", "logoUrl"}

C3_UpdateSetsExactlyFields ==
  [][(Settles("update")
        /\ last'.handle \in HandlesOf(companies)
        /\ Keys(last'.data) # {}
        /\ Keys(last'.data) \subseteq MutableFields)
       => /\ last'.status = "ok"
          /\ HandlesOf(companies') = HandlesOf(companies)
          /\ {r \in companies' : r.handle # last'.handle}
               = {r \in companies : r.handle # last'.handle}
          /\ \E old \in {ToCompany(RowOf(companies, last'.handle))} :
             \E new \in {ToCompany(RowOf(companies', last'.handle))} :
               /\ \A k \in DOMAIN old :
                    new[k] = IF k \in Keys(last'.data) THEN last'.data[k] ELSE old[k]
               /\ last'.value = <<new>>]_vars

C3_Witness ==
  /\ last.op = "update"
  /\ last.status = "ok"
  /\ Keys(last.data) = {"numEmployees", "logoUrl"}
  /\ Cardinality(companies) = 2
  /\ \E r \in companies : r.handle # last.handle /\ r.logo_url # last.data["logoUrl"]

\* C4: a remove of an existing handle deletes exactly that row, leaves the
\* others and returns no value; a get of a handle without a row fails with
\* NotFoundError; and once a handle is removed it has no row again until a
\* create of that handle succeeds.
C4_RemoveIsPermanent ==
  [][/\ (Settles("remove") /\ last'.handle \in HandlesOf(companies))
          => /\ last'.status = "ok"
             /\ last'.value = <<>>
             /\ companies' = {r \in companies : r.handle # last'.handle}
     /\ (Settles("get") /\ last'.handle \notin HandlesOf(companies))
          => last'.status = "NotFoundError"
     /\ (last.op = "remove" /\ last.status = "ok"
           /\ last.handle \in HandlesOf(companies'))
          => /\ last'.op = "create"
             /\ last'.status = "ok"
             /\ last'.handle = last.handle]_vars

\* C5: get, update with a nonempty field map, and remove of a handle that
\* has no row each fail with NotFoundError and leave the table as it was.
C5_MissingHandleNotFound ==
  [][(/\ last' # last
      /\ last'.op \in {"get", "update", "remove"}
      /\ last'.handle \notin HandlesOf(companies)
      /\ last'.op = "update" => Keys(last'.data) # {})
       => /\ last'.status = "NotFoundError"
          /\ last'.value = <<>>
          /\ companies' = companies]_vars

C5_Witness ==
  /\ last.op = "update"
  /\ last.status = "NotFoundError"
  /\ "handle" \in Keys(last.data)
  /\ companies # {}

\* C6: a findAll whose filter carries both bounds with minEmployees >
\* maxEmployees fails with a BadRequestError, whatever its name is, before
\* any query is issued; with only one of the two bounds the validation
\* never fails.
C6_InvertedRangeRejected ==
  last.op = "findAll" =>
    LET hasMin == "minEmployees" \in Keys(last.data)
        hasMax == "maxEmployees" \in Keys(last.data)
    IN /\ (hasMin /\ hasMax /\ last.data["minEmployees"] > last.data["maxEmployees"])
            => (last.status = "BadRequestError" /\ last.queries = 0 /\ last.value = <<>>)
       /\ (hasMin # hasMax) => last.status = "ok"

C6_Witness ==
  /\ last.op = "findAll"
  /\ last.status = "BadRequestError"
  /\ "name" \in Keys(last.data)
  /\ companies # {}

\* The rows a findAll returned, as a set.
Returned == {last.value[i] : i \in DOMAIN last.value}

\* The inclusive employee range a filter asks for.
InRange(row, query) ==
  /\ row.num_employees # NullInt
  /\ row.num_employees >=
       (IF "minEmployees" \in Keys(query) THEN query["minEmployees"] ELSE DEFAULT_MIN)
  /\ row.num_employees <=
       (IF "maxEmployees" \in Keys(query) THEN query["maxEmployees"] ELSE DEFAULT_MAX)

HasBound(query) == "minEmployees" \in Keys(query) \/ "maxEmployees" \in Keys(query)

\* C7: with name absent and at least one bound present (0 included), a
\* findAll that passes the validation returns exactly the rows whose
\* numEmployees lies in [minEmployees or 0, maxEmployees or 1000000].
C7_RangeOnly ==
  (last.op = "findAll" /\ last.status = "ok"
     /\ "name" \notin Keys(last.data) /\ HasBound(last.data))
    => /\ Returned = {ToCompany(r) : r \in {x \in companies : InRange(x, last.data)}}
       /\ Len(last.value) = Cardinality(Returned)

\* C8: with name present and at least one bound present (0 included), a
\* findAll that passes the validation returns exactly the rows whose name
\* matches and whose numEmployees lies in the range: it never answers as
\* the name-only or the return-all branch would.
C8_NameAndRange ==
  (last.op = "findAll" /\ last.status = "ok"
     /\ "name" \in Keys(last.data) /\ HasBound(last.data))
    => /\ Returned = {ToCompany(r) :
                        r \in {x \in companies :
                                 ILike(x.name, last.data["name"]) /\ InRange(x, last.data)}}
       /\ Len(last.value) = Cardinality(Returned)

\* C9: a handle never changes: no update changes the set of handles, a
\* handle enters the table only through a create and leaves it only
\* through a remove.
C9_HandleImmutable ==
  [][/\ Settles("update") => HandlesOf(companies') = HandlesOf(companies)
     /\ HandlesOf(companies') \ HandlesOf(companies) # {} => last'.op = "create"
     /\ HandlesOf(companies) \ HandlesOf(companies') # {} => last'.op = "remove"]_vars

\* C10: under every interleaving of concurrent creates the table holds at
\* most one row per handle; a create returns a record only by inserting a
\* handle that had no row (and rows never leave), so at most one create per
\* handle returns a record; a create that passed the check but finds the
\* handle taken at its insert fails with the store's own error, not the
\* duplicate error, and inserts nothing.
OneRowPerHandle == \A r1, r2 \in companies : r1.handle = r2.handle => r1 = r2

C10_RaceStep ==
  /\ HandlesOf(companies) \subseteq HandlesOf(companies')
  /\ \A c \in Callers :
       (pc[c] = "insert" /\ pc'[c] = "idle")
         => /\ last'.op = "create"
            /\ last'.caller = c
            /\ IF frame[c][1].handle \in HandlesOf(companies)
               THEN /\ last'.status = "UniqueViolation"
                    /\ last'.value = <<>>
                    /\ companies' = companies
               ELSE /\ last'.status = "ok"
                    /\ last'.value = <<frame[c][1]>>
                    /\ frame[c][1].handle \in HandlesOf(companies')
  /\ (Settles("create") /\ last'.status = "ok")
       => /\ last'.handle \notin HandlesOf(companies)
          /\ last'.handle \in HandlesOf(companies')

C10_ConcurrentCreates == []OneRowPerHandle /\ [][C10_RaceStep]_vars

C10_Witness ==
  /\ last.op = "create"
  /\ last.status = "UniqueViolation"
  /\ last.queries = 2
  /\ last.handle \in HandlesOf(companies)
====
